---- MODULE Spec2Model ----
(***************************************************************************)
(* A model of parseit.py: the TokenStream cursor, the Parser.__call__      *)
(* backtracking wrapper, the combinators (TokenSatisfying, Action, Proxy,  *)
(* Or, And, Repeat), Parser.descendants / parse_string and Lexer._lex.     *)
(*                                                                         *)
(* The combinator engine is run as a small-step machine with an explicit   *)
(* call stack: one frame per Parser.__call__ invocation.                   *)
(***************************************************************************)
EXTENDS Integers, Sequences, FiniteSets, TLC

VARIABLES
    token_list,   \* TokenStream.token_list: the texts of the tokens, in order
    position,     \* TokenStream.position
    proxy,        \* Proxy.parser of every Proxy node (0 is Python's None)
    stack,        \* the Python call stack: one frame per Parser.__call__
    returned,     \* the Parser.__call__ invocation that returned last
    status,       \* "idle" | "running" | "done" | "raised"
    err,          \* the exception that ended the run ("none" when none did)
    peeked,       \* the caller's last TokenStream.peek(): the cursor then, and what it returned
    \* Parser.parse_string and Parser.descendants
    iroot,        \* the parser parse_string was called on (0 before the call)
    seen,         \* the set descendants() fills
    dstack,       \* the nested descendants() calls
    visits,       \* how often each node was added to seen
    keywords,     \* the keyword set handed to Lexer
    symbols,      \* the symbol set handed to Lexer
    istatus,      \* "idle" | "descendants" | "collect" | "collected" | "raised"
                  \* (RecursionError in descendants) | "failed" (_lex raised)
    \* Lexer
    string,       \* the text being tokenized, a sequence of characters
    lexer_keywords, \* Lexer.keywords
    lexer_symbols,  \* Lexer.symbols
    token_types,  \* Lexer.token_types, as far as the symbol pattern goes
    lex_i,        \* _lex's local i: its position in string
    yielded,      \* the tokens _lex has yielded
    lstatus,      \* "idle" | "ready" | "ignore" | "test" | "done" | "raised"
    lerr,         \* the exception that ended _lex ("none" when none did)
    new_token     \* the Token that Token.__init__ built last

engineVars == <<token_list, position, stack, returned, status, err, peeked>>
introVars == <<iroot, seen, dstack, visits, keywords, symbols, istatus>>
lexVars == <<string, lexer_keywords, lexer_symbols, token_types, lex_i, yielded, lstatus, lerr,
             new_token>>
vars == <<engineVars, proxy, introVars, lexVars>>

----------------------------------------------------------------------------
(* Bounds of the model. *)

\* Longest token list, the end-of-input sentinel not counted.
MaxTokens == 4

\* Depth of nested Parser.__call__ invocations at which Python gives up with
\* a RecursionError (sys.getrecursionlimit(), scaled down).
MaxDepth == 24

\* Number of results after which an unbounded Repeat loop is no longer followed.
MaxResults == 8

\* Longest text handed to the Lexer, in characters.
MaxChars == 3

----------------------------------------------------------------------------
(* Values a parser returns. *)

None == [t |-> "None"]
TokV(i) == [t |-> "Token", i |-> i]      \* the Token object token_list[i]
ListV(s) == [t |-> "list", items |-> s]
IntV(n) == [t |-> "int", n |-> n]
StrV(s) == [t |-> "str", s |-> s]
BoolV(b) == [t |-> "bool", b |-> b]
Exc(e) == [t |-> "exception", e |-> e]     \* a raised exception, not a value

\* A test of truth where Python's "is None" stands: 0, "" and [] fail it too.
IsNone_falsy(v) ==
    \/ v.t = "None"
    \/ (v.t = "int" /\ v.n = 0)
    \/ (v.t = "str" /\ v.s = "")
    \/ (v.t = "list" /\ v.items = <<>>)

\* result is None
IsNone(v) == v.t = "None"

Min(a, b) == IF a <= b THEN a ELSE b

----------------------------------------------------------------------------
(* The grammar: an arena of parser nodes, a node's identity being its      *)
(* index.  Every class of the module occurs, alone and nested.             *)

Sym(s) == [cls |-> "Symbol", text |-> s]
Kw(s) == [cls |-> "Keyword", text |-> s]
TokM(s) == [cls |-> "TokenMatching", text |-> s]
TokT(s) == [cls |-> "TokenOfType", type_ |-> s]
AndN(cs) == [cls |-> "And", children |-> cs]
OrN(cs) == [cls |-> "Or", children |-> cs]
ActionN(c, f) == [cls |-> "Action", wrap |-> "Action", children |-> <<c>>, action |-> f]
OnSuccess(c, f) == [cls |-> "Action", wrap |-> "OnSuccess", children |-> <<c>>, action |-> f]
OnFailure(c, f) == [cls |-> "Action", wrap |-> "OnFailure", children |-> <<c>>, action |-> f]
ProxyN == [cls |-> "Proxy"]
Repeat(c, lo, bounded, hi) ==
    [cls |-> "Repeat", children |-> <<c>>, at_least |-> lo,
     has_most |-> bounded, at_most |-> hi]
ZeroOrMore(c) == Repeat(c, 0, FALSE, 0)
OneOrMore(c) == Repeat(c, 1, FALSE, 0)
AtMost(c, n) == Repeat(c, 0, TRUE, n)

Grammar == <<
    Sym("("),                   \*  1
    Sym(")"),                   \*  2
    TokM(""),                   \*  3  matches the end-of-input sentinel
    Kw("if"),                   \*  4
    TokT("int"),                \*  5
    AndN(<<1, 2>>),             \*  6
    AndN(<<>>),                 \*  7
    OrN(<<6, 1>>),              \*  8
    OrN(<<17, 1>>),             \*  9  both alternatives match "("
    ZeroOrMore(1),              \* 10
    OneOrMore(1),               \* 11
    AtMost(1, 0),               \* 12
    AtMost(1, 1),               \* 13
    AtMost(1, 2),               \* 14
    Repeat(6, 2, FALSE, 0),     \* 15
    ActionN(1, "none"),         \* 16
    OnSuccess(1, "zero"),       \* 17
    OnFailure(1, "emptylist"),  \* 18
    OnFailure(6, "none"),       \* 19
    OnSuccess(10, "emptystr"),  \* 20
    ProxyN,                     \* 21  S, the balanced-parentheses rule
    AndN(<<1, 23, 2>>),         \* 22  '(' S* ')'
    ZeroOrMore(21),             \* 23
    ZeroOrMore(18),             \* 24  the child succeeds without consuming
    ZeroOrMore(3),              \* 25  the child accepts the sentinel
    AndN(<<18, 17, 2>>),        \* 26
    OrN(<<15, 6, 13>>),         \* 27
    ZeroOrMore(10),             \* 28
    ZeroOrMore(7),              \* 29
    Sym("("),                   \* 30  equal to node 1 in structure, another object
    ZeroOrMore(17),             \* 31  collects the zeros of node 17
    OnFailure(6, "zero"),       \* 32  recovers after '(' was consumed
    OrN(<<20, 1>>),             \* 33  the first alternative yields ""
    AndN(<<20, 18>>)            \* 34  both children may yield falsy values
>>

Nodes == 1..Len(Grammar)
ProxyNodes == {n \in Nodes : Grammar[n].cls = "Proxy"}

\* The parsers a Proxy is given after construction.
ProxyChoices == {22, 21, 23, 1}

IsTokenSatisfying(n) ==
    Grammar[n].cls \in {"Symbol", "Keyword", "TokenMatching", "TokenOfType"}

\* node.children: Proxy.children is computed from Proxy.parser.
children(n, px) ==
    IF Grammar[n].cls = "Proxy"
    THEN IF px[n] # 0 THEN <<px[n]>> ELSE <<>>
    ELSE IF IsTokenSatisfying(n) THEN <<>> ELSE Grammar[n].children

----------------------------------------------------------------------------
(* TokenStream. *)

\* peek without the clamp: token_list[position].
peek_unclamped(tl, pos) ==
    IF pos < Len(tl) THEN TokV(pos) ELSE Exc("IndexError")

\* TokenStream.peek: the token at the cursor, clamped to the last token.
peek(tl, pos) ==
    LET i == Min(pos, Len(tl) - 1)
    IN  IF i >= 0 /\ i < Len(tl) THEN TokV(i) ELSE Exc("IndexError")

\* TokenStream.save
save(pos) == pos

\* load rewinding to the start of the list whatever was saved.
load_zero(pos, p) == 0

\* TokenStream.load
load(pos, p) == p

\* TokenStream.__next__: the cursor moves first, then the list is indexed.
next(tl, pos) ==
    [position |-> pos + 1,
     value |-> IF pos + 1 - 1 < Len(tl) THEN TokV(pos + 1 - 1) ELSE Exc("IndexError")]

\* Token text of the Token object a value names.
TextOf(tl, v) == tl[v.i + 1]

----------------------------------------------------------------------------
(* Call frames.  pc is "parse" while _parse runs (or is resumed with the   *)
(* result of the child it called), "wait" while a child call is            *)
(* outstanding, "exit" once _parse has returned val.                       *)

\* entry is the cursor at the entry of the invocation; applied tells
\* whether an Action node called the grammar author's function.
Frame(n, pos) ==
    [node |-> n, save |-> save(pos), k |-> 0, results |-> <<>>, log |-> <<>>,
     pc |-> "parse", val |-> None, entry |-> pos, applied |-> FALSE]

NoCall == [node |-> 0, save |-> 0, result |-> None, end |-> 0, log |-> <<>>,
           applied |-> FALSE]
NoPeek == [at |-> 0, value |-> [t |-> "nothing"]]

\* What a step of _parse decides.
CallChild(f, c) == [op |-> "call", node |-> c, frame |-> f]
Return(f, v) == [op |-> "return", val |-> v, frame |-> f]
Raise(f, e) == [op |-> "raise", err |-> e, frame |-> f]

----------------------------------------------------------------------------
(* The _parse methods.  f is the frame, r the result of the child call     *)
(* that just returned (read only when f.k > 0).                            *)

\* TokenSatisfying.condition, as TokenOfType and TokenMatching set it.
condition(n, tl, tok) ==
    IF Grammar[n].cls = "TokenOfType"
    THEN Exc("AttributeError")             \* Token has no attribute type_
    ELSE BoolV(TextOf(tl, tok) = Grammar[n].text)

\* TokenSatisfying._parse; also gives the cursor it leaves.
TokenSatisfying_parse(f, tl, pos) ==
    LET t == peek(tl, pos)
    IN  IF t.t = "exception" THEN [d |-> Raise(f, t.e), position |-> pos]
        ELSE LET c == condition(f.node, tl, t)
             IN  IF c.t = "exception" THEN [d |-> Raise(f, c.e), position |-> pos]
                 ELSE IF c.b
                 THEN LET nx == next(tl, pos)
                      IN  IF nx.value.t = "exception"
                          THEN [d |-> Raise(f, nx.value.e), position |-> nx.position]
                          ELSE [d |-> Return(f, nx.value), position |-> nx.position]
                 ELSE [d |-> Return(f, None), position |-> pos]

\* The functions grammar authors hand to Action / OnSuccess / OnFailure.
ApplyAction(a, r) ==
    CASE a = "none" -> None
      [] a = "zero" -> IntV(0)
      [] a = "emptylist" -> ListV(<<>>)
      [] a = "emptystr" -> StrV("")
      [] OTHER -> r

\* applies with the author's function called whatever the child returned.
applies_always(n, r) == TRUE

\* Whether the lambda Action.action holds calls the author's function on r:
\* OnSuccess tests result is not None, OnFailure result is None, a bare
\* Action has no test.
applies(n, r) ==
    CASE Grammar[n].wrap = "OnSuccess" -> ~IsNone(r)
      [] Grammar[n].wrap = "OnFailure" -> IsNone(r)
      [] OTHER -> TRUE

\* The lambda Action.action holds: the bare action, or the OnSuccess / OnFailure wrapping.
action(n, r) ==
    IF applies(n, r) THEN ApplyAction(Grammar[n].action, r)
    ELSE IF Grammar[n].wrap = "OnSuccess" THEN None ELSE r

\* Action._parse
Action_parse(f, r) ==
    IF f.k = 0
    THEN CallChild([f EXCEPT !.k = 1], Grammar[f.node].children[1])
    ELSE Return([f EXCEPT !.applied = applies(f.node, r)], action(f.node, r))

\* Proxy._parse without its return statement.
Proxy_parse_noreturn(f, r, px) ==
    IF f.k = 0
    THEN IF px[f.node] = 0
         THEN Raise(f, "TypeError")
         ELSE CallChild([f EXCEPT !.k = 1], px[f.node])
    ELSE Return(f, None)

\* Proxy._parse
Proxy_parse(f, r, px) ==
    IF f.k = 0
    THEN IF px[f.node] = 0
         THEN Raise(f, "TypeError")        \* None is not callable
         ELSE CallChild([f EXCEPT !.k = 1], px[f.node])
    ELSE Return(f, r)

\* Or._parse that goes on after a success and returns the last child's result.
Or_parse_last(f, r) ==
    LET cs == Grammar[f.node].children
    IN  IF f.k < Len(cs) THEN CallChild([f EXCEPT !.k = f.k + 1], cs[f.k + 1])
        ELSE Return(f, IF f.k > 0 THEN r ELSE None)

\* Or._parse
Or_parse(f, r) ==
    LET cs == Grammar[f.node].children
    IN  IF f.k > 0 /\ ~IsNone(r) THEN Return(f, r)
        ELSE IF f.k < Len(cs) THEN CallChild([f EXCEPT !.k = f.k + 1], cs[f.k + 1])
        ELSE Return(f, None)

\* And._parse without the test for a failed child.
And_parse_nocheck(f, r) ==
    LET cs == Grammar[f.node].children
        g == IF f.k > 0 THEN [f EXCEPT !.results = Append(f.results, r)] ELSE f
    IN  IF g.k < Len(cs) THEN CallChild([g EXCEPT !.k = g.k + 1], cs[g.k + 1])
        ELSE Return(g, ListV(g.results))

\* And._parse
And_parse(f, r) ==
    LET cs == Grammar[f.node].children
        g == IF f.k > 0 THEN [f EXCEPT !.results = Append(f.results, r)] ELSE f
    IN  IF f.k > 0 /\ IsNone(r) THEN Return(f, None)
        ELSE IF g.k < Len(cs) THEN CallChild([g EXCEPT !.k = g.k + 1], cs[g.k + 1])
        ELSE Return(g, ListV(g.results))

\* Repeat._parse with the minimum compared by > instead of >=.
Repeat_parse_gt(f, r) ==
    LET nd == Grammar[f.node]
        g == IF f.k > 0 /\ ~IsNone(r)
             THEN [f EXCEPT !.results = Append(f.results, r)] ELSE f
    IN  IF f.k > 0 /\ IsNone(r)
        THEN Return(f, IF Len(f.results) > nd.at_least THEN ListV(f.results) ELSE None)
        ELSE IF ~nd.has_most \/ Len(g.results) <= nd.at_most
        THEN CallChild([g EXCEPT !.k = g.k + 1], nd.children[1])
        ELSE Return(g, None)

\* Repeat._parse
Repeat_parse(f, r) ==
    LET nd == Grammar[f.node]
        g == IF f.k > 0 /\ ~IsNone(r)
             THEN [f EXCEPT !.results = Append(f.results, r)] ELSE f
    IN  IF f.k > 0 /\ IsNone(r)
        THEN Return(f, IF Len(f.results) >= nd.at_least THEN ListV(f.results) ELSE None)
        ELSE IF ~nd.has_most \/ Len(g.results) <= nd.at_most
        THEN CallChild([g EXCEPT !.k = g.k + 1], nd.children[1])
        ELSE Return(g, None)               \* the loop ends and _parse falls off its end

\* Parser.__call__ without the rollback.
Parser_call_exit_norollback(sv, result, pos) == pos

\* Parser.__call__, after _parse returned: the cursor the call leaves.
Parser_call_exit(sv, result, pos) ==
    IF IsNone(result) THEN load(pos, sv) ELSE pos

----------------------------------------------------------------------------
(* The machine. *)

Streams ==
    UNION {[1..n -> {"(", ")"}] : n \in 0..MaxTokens}

EngineInit ==
    /\ token_list \in {s \o <<"">> : s \in Streams}
    /\ position = 0
    /\ proxy = [n \in ProxyNodes |-> 0]
    /\ stack = <<>>
    /\ returned = NoCall
    /\ status = "idle"
    /\ err = "none"
    /\ peeked = NoPeek

\* No Token has been constructed.
NoToken == [token |-> <<>>, string |-> <<>>, start |-> 0 - 1, end |-> 0 - 1,
            line |-> <<>>, line_number |-> 0 - 1, column_number |-> 0 - 1]

\* Nothing of parse_string / descendants has run.
IntrospectIdle ==
    /\ iroot = 0
    /\ seen = {}
    /\ dstack = <<>>
    /\ visits = [n \in Nodes |-> 0]
    /\ keywords = {}
    /\ symbols = {}
    /\ istatus = "idle"

\* No Lexer has been constructed.
LexerIdle ==
    /\ string = <<>>
    /\ lexer_keywords = {}
    /\ lexer_symbols = {}
    /\ token_types = [symbol |-> <<>>]
    /\ lex_i = 0
    /\ yielded = <<>>
    /\ lstatus = "idle"
    /\ lerr = "none"
    /\ new_token = NoToken

Init == EngineInit /\ IntrospectIdle /\ LexerIdle

Top == stack[Len(stack)]

\* S.parser = p, after S = Proxy()
Proxy_assign ==
    /\ status = "idle" /\ istatus = "idle"
    /\ \E n \in ProxyNodes, c \in ProxyChoices :
          /\ proxy[n] = 0
          /\ proxy' = [proxy EXCEPT ![n] = c]
    /\ UNCHANGED <<token_list, position, stack, returned, status, err, peeked>>
    /\ UNCHANGED <<introVars, lexVars>>

\* stream.load(p) by the caller, before the parse
TokenStream_load ==
    /\ status = "idle"
    /\ \E p \in 0..Len(token_list) : position' = load(position, p)
    /\ UNCHANGED <<token_list, proxy, stack, returned, status, err, peeked>>
    /\ UNCHANGED <<introVars, lexVars>>

\* stream.peek() by the caller
TokenStream_peek ==
    /\ status \in {"idle", "done", "raised"}
    /\ peeked' = [at |-> position, value |-> peek(token_list, position)]
    /\ UNCHANGED <<token_list, position, proxy, stack, returned, status, err>>
    /\ UNCHANGED <<introVars, lexVars>>

\* parser(stream): the outermost Parser.__call__
Invoke ==
    /\ status = "idle"
    /\ \E n \in Nodes : stack' = <<Frame(n, position)>>
    /\ status' = "running"
    /\ peeked' = NoPeek
    /\ UNCHANGED <<token_list, position, proxy, returned, err>>
    /\ UNCHANGED <<introVars, lexVars>>

\* The effect of what a step of _parse decided.
Do(d, pos) ==
    /\ position' = pos
    /\ CASE d.op = "call" ->
              IF Len(stack) >= MaxDepth
              THEN /\ status' = "raised" /\ err' = "RecursionError" /\ stack' = <<>>
              ELSE /\ stack' = [stack EXCEPT ![Len(stack)] = [d.frame EXCEPT !.pc = "wait"]]
                               \o <<Frame(d.node, pos)>>
                   /\ UNCHANGED <<status, err>>
         [] d.op = "return" ->
              /\ stack' = [stack EXCEPT ![Len(stack)] =
                              [d.frame EXCEPT !.pc = "exit", !.val = d.val]]
              /\ UNCHANGED <<status, err>>
         [] OTHER ->
              /\ status' = "raised" /\ err' = d.err /\ stack' = <<>>
    /\ UNCHANGED <<token_list, proxy, returned, peeked>>
    /\ UNCHANGED <<introVars, lexVars>>

Parsing(cls) ==
    /\ status = "running"
    /\ Top.pc = "parse"
    /\ Grammar[Top.node].cls \in cls

TokenSatisfying_step ==
    /\ Parsing({"Symbol", "Keyword", "TokenMatching", "TokenOfType"})
    /\ LET o == TokenSatisfying_parse(Top, token_list, position)
       IN  Do(o.d, o.position)

Action_step ==
    /\ Parsing({"Action"})
    /\ Do(Action_parse(Top, returned.result), position)

Proxy_step ==
    /\ Parsing({"Proxy"})
    /\ Do(Proxy_parse(Top, returned.result, proxy), position)

Or_step ==
    /\ Parsing({"Or"})
    /\ Do(Or_parse(Top, returned.result), position)

And_step ==
    /\ Parsing({"And"})
    /\ Do(And_parse(Top, returned.result), position)

Repeat_step ==
    /\ Parsing({"Repeat"})
    /\ Len(Top.results) < MaxResults
    /\ Do(Repeat_parse(Top, returned.result), position)

\* Parser.__call__ lines 110-112: roll back on None, hand the result to the caller.
Parser_call_return ==
    /\ status = "running"
    /\ Top.pc = "exit"
    /\ LET f == Top
           end == Parser_call_exit(f.save, f.val, position)
           rec == [node |-> f.node, save |-> f.save, result |-> f.val,
                   end |-> end, log |-> f.log, applied |-> f.applied]
           rest == SubSeq(stack, 1, Len(stack) - 1)
       IN  /\ position' = end
           /\ returned' = rec
           /\ IF rest = <<>>
              THEN /\ stack' = <<>>
                   /\ status' = "done"
              ELSE /\ stack' = [rest EXCEPT ![Len(rest)] =
                          [@ EXCEPT !.pc = "parse",
                                    !.log = Append(@, [node |-> f.node, start |-> f.save,
                                                       result |-> f.val, end |-> end])]]
                   /\ UNCHANGED status
    /\ UNCHANGED <<token_list, proxy, err, peeked>>
    /\ UNCHANGED <<introVars, lexVars>>

Next ==
    \/ Proxy_assign
    \/ TokenStream_load
    \/ TokenStream_peek
    \/ Invoke
    \/ TokenSatisfying_step
    \/ Action_step
    \/ Proxy_step
    \/ Or_step
    \/ And_step
    \/ Repeat_step
    \/ Parser_call_return

Spec == Init /\ [][Next]_vars

\* The interpreter runs a started parse on: every step of it is taken.
Run ==
    \/ TokenSatisfying_step
    \/ Action_step
    \/ Proxy_step
    \/ Or_step
    \/ And_step
    \/ Repeat_step
    \/ Parser_call_return

FairSpec == Spec /\ WF_vars(Run)

----------------------------------------------------------------------------
(* Parser.parse_string up to the construction of the Lexer, and            *)
(* Parser.descendants, one frame per nested descendants() call.            *)

\* Line 134: the object whose descendants() is called for the child `parser`
\* of `self`.  The source calls self.descendants(seen).
descendants_callee(self, parser) == self

\* in_seen without the test of line 129.
in_seen_never(self, sn) == FALSE

\* Line 129: self in seen.  Parser defines neither __eq__ nor __hash__, so
\* membership goes by object identity: the node's index.
in_seen(self, sn) == self \in sn

DFrame(n) == [self |-> n, k |-> 0, pc |-> "enter"]
DTop == dstack[Len(dstack)]

\* The return of the innermost descendants() call.
DReturn ==
    LET rest == SubSeq(dstack, 1, Len(dstack) - 1)
    IN  /\ dstack' = rest
        /\ istatus' = IF rest = <<>> THEN "collect" ELSE istatus

\* The texts parse_string is called with: empty, ignorable only, and texts
\* with something to tokenize.
Strings == {<<>>, <<" ">>, <<"(">>, <<"(", ")">>, <<"#", "(">>, <<"\n", "i", "f">>}

\* root.parse_string(string), lines 115-117: the call of self.descendants()
parse_string ==
    /\ status = "idle" /\ istatus = "idle" /\ lstatus = "idle"
    /\ \E n \in Nodes :
          /\ iroot' = n
          /\ dstack' = <<DFrame(n)>>
    /\ \E s \in Strings : string' = s
    /\ istatus' = "descendants"
    /\ UNCHANGED <<seen, visits, keywords, symbols>>
    /\ UNCHANGED <<lexer_keywords, lexer_symbols, token_types, lex_i, yielded, lstatus,
                   lerr, new_token>>
    /\ UNCHANGED <<engineVars, proxy>>

\* descendants, lines 126-132
descendants_enter ==
    /\ istatus = "descendants"
    /\ DTop.pc = "enter"
    /\ IF in_seen(DTop.self, seen)
       THEN /\ DReturn
            /\ UNCHANGED <<seen, visits>>
       ELSE /\ seen' = seen \cup {DTop.self}
            /\ visits' = [visits EXCEPT ![DTop.self] = @ + 1]
            /\ dstack' = [dstack EXCEPT ![Len(dstack)].pc = "loop"]
            /\ UNCHANGED istatus
    /\ UNCHANGED <<iroot, keywords, symbols>>
    /\ UNCHANGED <<engineVars, proxy, lexVars>>

\* descendants, lines 133-136: the loop over self.children
descendants_loop ==
    /\ istatus = "descendants"
    /\ DTop.pc = "loop"
    /\ LET cs == children(DTop.self, proxy)
       IN  IF DTop.k < Len(cs)
           THEN IF Len(dstack) >= MaxDepth
                THEN /\ istatus' = "raised"      \* RecursionError
                     /\ dstack' = <<>>
                ELSE /\ dstack' = [dstack EXCEPT ![Len(dstack)].k = @ + 1]
                                  \o <<DFrame(descendants_callee(DTop.self, cs[DTop.k + 1]))>>
                     /\ UNCHANGED istatus
           ELSE DReturn
    /\ UNCHANGED <<iroot, seen, visits, keywords, symbols>>
    /\ UNCHANGED <<engineVars, proxy, lexVars>>

\* parse_string, lines 117-121: the literals of the Keyword and Symbol nodes
\* among the descendants
parse_string_collect ==
    /\ istatus = "collect"
    /\ keywords' = {Grammar[n].text : n \in {m \in seen : Grammar[m].cls = "Keyword"}}
    /\ symbols' = {Grammar[n].text : n \in {m \in seen : Grammar[m].cls = "Symbol"}}
    /\ istatus' = "collected"
    /\ UNCHANGED <<iroot, seen, dstack, visits>>
    /\ UNCHANGED <<engineVars, proxy, lexVars>>

----------------------------------------------------------------------------
(* Lexer.  A text is a sequence of one-character strings.                  *)

Chars == {"=", " ", "#", "\n", "1", "@"}
Texts == UNION {[1..n -> Chars] : n \in 0..MaxChars}
Eq == <<"=">>
EqEq == <<"=", "=">>
LParen == <<"(">>
If == <<"i", "f">>

\* ord(c) of the characters that occur in symbols
Ord(c) == CASE c = "(" -> 40 [] c = ")" -> 41 [] c = "=" -> 61 [] OTHER -> 0

\* a < b for str
StrLess(a, b) ==
    \E k \in 1..(Len(b)) :
        /\ \A j \in 1..(k - 1) : j <= Len(a) /\ a[j] = b[j]
        /\ \/ k = Len(a) + 1
           \/ k <= Len(a) /\ Ord(a[k]) < Ord(b[k])

\* reversed(sorted(symbols)), line 71: the alternatives of the symbol
\* pattern, in the order the regex tries them
RECURSIVE reversed_sorted(_)
reversed_sorted(S) ==
    IF S = {} THEN <<>>
    ELSE LET m == CHOOSE x \in S : \A y \in S \ {x} : StrLess(y, x)
         IN  <<m>> \o reversed_sorted(S \ {m})

\* \s
IsSpace(c) == c \in {" ", "\n"}

\* [^\n]* from offset j: the offset of the next newline, or the end
RECURSIVE comment_end(_, _)
comment_end(str, j) ==
    IF j < Len(str) /\ str[j + 1] # "\n" THEN comment_end(str, j + 1) ELSE j

\* ignore_regex.match(string, j).end(), lines 56 and 82: whitespace runs and
\* '#' comments, as many as follow each other
RECURSIVE ignore_end(_, _)
ignore_end(str, j) ==
    IF j < Len(str) /\ IsSpace(str[j + 1]) THEN ignore_end(str, j + 1)
    ELSE IF j < Len(str) /\ str[j + 1] = "#" THEN ignore_end(str, comment_end(str, j + 1))
    ELSE j

\* Lexer(keywords, symbols), lines 58-73
Lexer_init ==
    /\ istatus = "idle" /\ status = "idle"
    /\ lstatus = "idle"
    /\ token_types' = [symbol |-> reversed_sorted(lexer_symbols)]
    /\ lstatus' = "ready"
    /\ UNCHANGED <<string, lexer_keywords, lexer_symbols, lex_i, yielded, lerr>>
    /\ UNCHANGED <<engineVars, proxy, introVars, new_token>>

\* lexer(string), line 76: TokenStream's list() runs the generator; lines 79-80
Lexer_call ==
    /\ lstatus = "ready"
    /\ lex_i' = 0
    /\ lstatus' = "ignore"
    /\ UNCHANGED <<string, lexer_keywords, lexer_symbols, token_types, yielded, lerr>>
    /\ UNCHANGED <<engineVars, proxy, introVars, new_token>>

\* _lex, line 82
lex_ignore ==
    /\ lstatus = "ignore"
    /\ lex_i' = ignore_end(string, lex_i)
    /\ lstatus' = "test"
    /\ UNCHANGED <<string, lexer_keywords, lexer_symbols, token_types, yielded, lerr>>
    /\ UNCHANGED <<engineVars, proxy, introVars, new_token>>

\* _lex, lines 83 and 95: at the end of the text the loop is left and the
\* sentinel is built with five arguments for Token.__init__(token, string,
\* start, end): a TypeError, nothing is yielded
lex_break ==
    /\ lstatus = "test"
    /\ lex_i >= Len(string)
    /\ lstatus' = "raised"
    /\ lerr' = "TypeError"
    /\ istatus' = IF istatus = "collected" THEN "failed" ELSE istatus
    /\ UNCHANGED <<string, lexer_keywords, lexer_symbols, token_types, lex_i, yielded>>
    /\ UNCHANGED <<iroot, seen, dstack, visits, keywords, symbols>>
    /\ UNCHANGED <<engineVars, proxy, new_token>>

\* _lex, line 85: the loop over token_types.items() names a global that does
\* not exist (the patterns are in self.token_types): a NameError, and lines
\* 86-94 never run
lex_for ==
    /\ lstatus = "test"
    /\ lex_i < Len(string)
    /\ lstatus' = "raised"
    /\ lerr' = "NameError"
    /\ istatus' = IF istatus = "collected" THEN "failed" ELSE istatus
    /\ UNCHANGED <<string, lexer_keywords, lexer_symbols, token_types, lex_i, yielded>>
    /\ UNCHANGED <<iroot, seen, dstack, visits, keywords, symbols>>
    /\ UNCHANGED <<engineVars, proxy, new_token>>

InitLex ==
    /\ EngineInit /\ token_list = <<"">>
    /\ IntrospectIdle
    /\ string \in Texts
    /\ lexer_keywords \in SUBSET {If}
    /\ lexer_symbols \in SUBSET {Eq, EqEq, LParen}
    /\ token_types = [symbol |-> <<>>]
    /\ lex_i = 0
    /\ yielded = <<>>
    /\ lstatus = "idle"
    /\ lerr = "none"
    /\ new_token = NoToken

NextLex ==
    \/ Lexer_init
    \/ Lexer_call
    \/ lex_ignore
    \/ lex_break
    \/ lex_for

SpecLex == InitLex /\ [][NextLex]_vars

----------------------------------------------------------------------------
(* Parser.parse_string as a whole: the traversal, then the Lexer. *)

\* The characters of a literal of the grammar: the Lexer works on texts as
\* sequences of characters.
chars(x) ==
    CASE x = "(" -> LParen
      [] x = ")" -> <<")">>
      [] x = "if" -> If
      [] OTHER -> <<>>

\* parse_string, line 122: lexer = Lexer(keywords, symbols), with the sets
\* collected from the descendants.  Line 123 then runs lexer(string), the
\* steps of Lexer.__call__ and _lex; _lex raises on every text, so the call
\* self(...) of line 123 is never made.
parse_string_lexer ==
    /\ istatus = "collected"
    /\ lstatus = "idle"
    /\ lexer_keywords' = {chars(x) : x \in keywords}
    /\ lexer_symbols' = {chars(x) : x \in symbols}
    /\ token_types' = [symbol |-> reversed_sorted({chars(x) : x \in symbols})]
    /\ lstatus' = "ready"
    /\ UNCHANGED <<string, lex_i, yielded, lerr, new_token>>
    /\ UNCHANGED <<engineVars, proxy, introVars>>

InitIntrospect ==
    /\ Init
    /\ token_list = <<"">>

NextIntrospect ==
    \/ Proxy_assign
    \/ parse_string
    \/ descendants_enter
    \/ descendants_loop
    \/ parse_string_collect
    \/ parse_string_lexer
    \/ Lexer_call
    \/ lex_ignore
    \/ lex_break
    \/ lex_for

SpecIntrospect == InitIntrospect /\ [][NextIntrospect]_vars

\* A started traversal runs on.
FairIntrospect ==
    SpecIntrospect /\ WF_vars(descendants_enter \/ descendants_loop \/ parse_string_collect)

----------------------------------------------------------------------------
(* Token: a text, its offsets, and the line it stands on. *)

Max(a, b) == IF a >= b THEN a ELSE b

\* str.rfind(c, lo, hi): the highest index in lo .. hi-1 where c stands, or -1
rfind(str, c, lo, hi) ==
    LET S == {k \in lo..(Min(hi, Len(str)) - 1) : str[k + 1] = c}
    IN  IF S = {} THEN 0 - 1 ELSE CHOOSE k \in S : \A m \in S : m <= k

\* str.find(c, lo): the lowest index from lo on where c stands, or -1
find(str, c, lo) ==
    LET S == {k \in lo..(Len(str) - 1) : str[k + 1] = c}
    IN  IF S = {} THEN 0 - 1 ELSE CHOOSE k \in S : \A m \in S : k <= m

\* str.count(c, lo, hi)
count(str, c, lo, hi) ==
    Cardinality({k \in lo..(Min(hi, Len(str)) - 1) : str[k + 1] = c})

\* str[a:b]: a negative index counts from the end, both are clamped
slice(str, a, b) ==
    LET lo == IF a < 0 THEN Max(a + Len(str), 0) ELSE Min(a, Len(str))
        hi == IF b < 0 THEN Max(b + Len(str), 0) ELSE Min(b, Len(str))
    IN  SubSeq(str, lo + 1, hi)

\* Token.__init__, lines 4-16
Token_init(tokn, str, start, end) ==
    LET a == rfind(str, "\n", 0, start) + 1
        b == find(str, "\n", end)
    IN  [token |-> tokn, string |-> str, start |-> start, end |-> end,
         line |-> slice(str, a, IF b = 0 THEN Len(str) ELSE b),
         line_number |-> count(str, "\n", 0, start),
         column_number |-> start - a + 1]

\* Token(string[start:end], string, start, end), by any caller
Token_new ==
    /\ status = "idle" /\ istatus = "idle" /\ lstatus = "idle"
    /\ \E start \in 0..Len(string) : \E end \in start..Len(string) :
          new_token' = Token_init(slice(string, start, end), string, start, end)
    /\ UNCHANGED <<string, lexer_keywords, lexer_symbols, token_types, lex_i, yielded,
                   lstatus, lerr>>
    /\ UNCHANGED <<engineVars, proxy, introVars>>

InitToken ==
    /\ EngineInit /\ token_list = <<"">>
    /\ IntrospectIdle
    /\ string \in Texts
    /\ lexer_keywords = {}
    /\ lexer_symbols = {}
    /\ token_types = [symbol |-> <<>>]
    /\ lex_i = 0
    /\ yielded = <<>>
    /\ lstatus = "idle"
    /\ lerr = "none"
    /\ new_token = NoToken

NextToken == Token_new

SpecToken == InitToken /\ [][NextToken]_vars

----------------------------------------------------------------------------
(* Properties of the combinator engine.  returned is the invocation that   *)
(* returned last, at any nesting depth; its log lists the child calls it   *)
(* made: the child, the cursor at its entry, its result, the cursor it     *)
(* left.                                                                   *)

Cls(n) == Grammar[n].cls
Called == returned.node # 0
Results(lg) == [i \in 1..Len(lg) |-> lg[i].result]
Successes(lg) == {i \in 1..Len(lg) : ~IsNone(lg[i].result)}
\* Each child call starts where the one before it left the cursor.
Chained(sv, lg) ==
    \A i \in 1..Len(lg) : lg[i].start = (IF i = 1 THEN sv ELSE lg[i - 1].end)
EndOf(sv, lg) == IF lg = <<>> THEN sv ELSE lg[Len(lg)].end

\* C1: every invocation, at any depth, that returns NO_MATCH leaves the
\* cursor where it was when the invocation started.
C1_Backtracking ==
    (Called /\ IsNone(returned.result)) => returned.end = returned.save

\* A nested invocation failed after a child of it had consumed a token.
C1_Witness ==
    /\ Called /\ IsNone(returned.result)
    /\ stack # <<>>
    /\ returned.log # <<>>
    /\ returned.log[1].end > returned.save
    /\ position = returned.save

\* C2: And calls its children in order, each from the cursor the previous
\* one left; it succeeds exactly when all of them succeed, with the list of
\* their results; when a child fails it returns NO_MATCH with the cursor at
\* the position where the sequence started.
C2_AndSequence ==
    (Called /\ Cls(returned.node) = "And") =>
        LET cs == Grammar[returned.node].children
            lg == returned.log
            n == Len(lg)
        IN  /\ n <= Len(cs)
            /\ \A i \in 1..n : lg[i].node = cs[i]
            /\ Chained(returned.save, lg)
            /\ \A i \in 1..(n - 1) : ~IsNone(lg[i].result)
            /\ IF n = Len(cs) /\ Successes(lg) = 1..n
               THEN /\ returned.result = ListV(Results(lg))
                    /\ returned.end = EndOf(returned.save, lg)
               ELSE /\ IsNone(returned.result)
                    /\ IsNone(lg[n].result)
                    /\ returned.end = returned.save

\* And('(', ')') failed on its second child after the first consumed a token.
C2_Witness ==
    /\ Called /\ returned.node = 6
    /\ Len(returned.log) = 2
    /\ returned.log[1].end = returned.save + 1
    /\ IsNone(returned.log[2].result)
    /\ IsNone(returned.result)
    /\ position = returned.save

\* C3: Or calls its children left to right, all from the same cursor, stops
\* at the first that succeeds and returns its result and cursor; it returns
\* NO_MATCH only when every child failed.  Node 9 is Or(OnSuccess('(' , 0),
\* '('): on '(' both alternatives match and the first one's result, 0, wins.
C3_OrOrdering ==
    (Called /\ Cls(returned.node) = "Or") =>
        LET cs == Grammar[returned.node].children
            lg == returned.log
            n == Len(lg)
        IN  /\ n <= Len(cs)
            /\ \A i \in 1..n : lg[i].node = cs[i] /\ lg[i].start = returned.save
            /\ \A i \in 1..(n - 1) : IsNone(lg[i].result)
            /\ IF n > 0 /\ ~IsNone(lg[n].result)
               THEN /\ returned.result = lg[n].result
                    /\ returned.end = lg[n].end
               ELSE /\ n = Len(cs)
                    /\ IsNone(returned.result)
            /\ (returned.node = 9 /\ token_list[Min(returned.save, Len(token_list) - 1) + 1] = "(")
                  => (returned.result = IntV(0) /\ n = 1)

\* Or(OnSuccess('(', 0), '(') returned the first alternative's result on '('.
C3_Witness ==
    /\ Called /\ returned.node = 9
    /\ returned.result = IntV(0)
    /\ Len(returned.log) = 1
    /\ returned.end = returned.save + 1

\* The tokens at pos .. pos+m-1 all exist before the sentinel and have text s.
RunOf(tl, pos, m, s) ==
    \A j \in pos..(pos + m - 1) : j + 1 < Len(tl) /\ tl[j + 1] = s

\* C4 (as claimed): AtMost(child, N), on a stream where the child matches more
\* than N times in a row, returns a list of exactly N results, after no more
\* than N successful child calls, with the cursor just after the N-th match.
\* (The children of the AtMost nodes of the grammar match the text "(".)
C4_AtMostClaim ==
    (/\ Called /\ Cls(returned.node) = "Repeat"
     /\ Grammar[returned.node].has_most /\ Grammar[returned.node].at_least = 0
     /\ RunOf(token_list, returned.save, Grammar[returned.node].at_most + 1, "(")) =>
        LET N == Grammar[returned.node].at_most
        IN  /\ returned.result.t = "list"
            /\ Len(returned.result.items) = N
            /\ Cardinality(Successes(returned.log)) <= N
            /\ returned.end = returned.save + N

\* C5: a Repeat without a maximum calls its child until it fails, each call
\* from the cursor the previous one left; it returns the list of the
\* successful results when there are at least at_least of them, and
\* NO_MATCH (cursor restored) otherwise.  With no match at all ZeroOrMore
\* returns the empty list with the cursor unchanged, OneOrMore NO_MATCH.
C5_RepeatMinimum ==
    (Called /\ Cls(returned.node) = "Repeat" /\ ~Grammar[returned.node].has_most) =>
        LET nd == Grammar[returned.node]
            lg == returned.log
            n == Len(lg)
        IN  /\ n >= 1
            /\ \A i \in 1..n : lg[i].node = nd.children[1]
            /\ Chained(returned.save, lg)
            /\ Successes(lg) = 1..(n - 1)
            /\ IF n - 1 >= nd.at_least
               THEN /\ returned.result = ListV(SubSeq(Results(lg), 1, n - 1))
                    /\ returned.end = lg[n].end
               ELSE /\ IsNone(returned.result)
                    /\ returned.end = returned.save
            /\ (n = 1 /\ nd.at_least = 0) =>
                  (returned.result = ListV(<<>>) /\ returned.end = returned.save)
            /\ (n = 1 /\ nd.at_least = 1) => IsNone(returned.result)

\* ZeroOrMore('(') returned the empty list where no '(' stands.
C5_Witness ==
    /\ Called /\ returned.node = 10
    /\ Len(returned.log) = 1
    /\ returned.result = ListV(<<>>)
    /\ position = returned.save

\* The balanced-parentheses rule: S = Proxy(), S.parser = And('(', ZeroOrMore(S), ')').
ParensRule == proxy[21] = 22
Parens(s) == token_list = s \o <<"">>

\* C6: every Proxy returns what its assigned child returned and leaves the
\* cursor where the child left it; S, invoked at the start of a stream,
\* accepts "()" and "(())", returns NO_MATCH on "(()", and every invocation of
\* S on any stream returns.
C6_Parens ==
    /\ [](Called /\ Cls(returned.node) = "Proxy" =>
             /\ Len(returned.log) = 1
             /\ returned.log[1].node = proxy[returned.node]
             /\ returned.log[1].start = returned.save
             /\ returned.result = returned.log[1].result
             /\ returned.end = returned.log[1].end)
    /\ [](status = "done" /\ returned.node = 21 /\ ParensRule /\ returned.save = 0 =>
             /\ Parens(<<"(", ")">>) =>
                   /\ returned.result = ListV(<<TokV(0), ListV(<<>>), TokV(1)>>)
                   /\ returned.end = 2
             /\ Parens(<<"(", "(", ")", ")">>) =>
                   /\ returned.result =
                         ListV(<<TokV(0),
                                 ListV(<<ListV(<<TokV(1), ListV(<<>>), TokV(2)>>)>>),
                                 TokV(3)>>)
                   /\ returned.end = 4
             /\ Parens(<<"(", "(", ")">>) =>
                   /\ IsNone(returned.result)
                   /\ returned.end = 0)
    /\ (status = "running" /\ stack[1].node = 21 /\ ParensRule) ~> (status = "done")

\* S accepted "(())".
C6_Witness ==
    /\ status = "done" /\ returned.node = 21 /\ ParensRule
    /\ Parens(<<"(", "(", ")", ")">>)
    /\ ~IsNone(returned.result)
    /\ position = 4

\* C9: with the cursor at or beyond the last index, peek returns the
\* end-of-input sentinel, the last token of the list, and never fails; a
\* caller's peek leaves the cursor alone.
C9_PeekClamped ==
    /\ [](position >= Len(token_list) - 1 =>
             /\ peek(token_list, position) = TokV(Len(token_list) - 1)
             /\ TextOf(token_list, peek(token_list, position)) = "")
    /\ [](peeked # NoPeek /\ peeked.at >= Len(token_list) - 1 =>
             peeked.value = TokV(Len(token_list) - 1))
    /\ [][TokenStream_peek => position' = position]_vars

\* The caller peeked with the cursor past the last token and got the sentinel.
C9_Witness ==
    /\ position > Len(token_list)
    /\ peeked.at = position
    /\ peeked.value = TokV(Len(token_list) - 1)

\* The successes Python takes for false: 0, "" and [].
Falsy(v) == v \in {IntV(0), StrV(""), ListV(<<>>)}

\* C14: a result of 0, "" or [] is a success everywhere: Parser.__call__ does
\* not roll the cursor back on it, And goes on to its next child and records
\* it, Or returns it as the first success, Repeat collects it and goes on.
C14_FalsySuccess ==
    Called =>
        LET nd == Grammar[returned.node]
            lg == returned.log
            n == Len(lg)
            F == {i \in 1..n : Falsy(lg[i].result)}
        IN  /\ Falsy(returned.result) => returned.end = EndOf(returned.save, lg)
            /\ nd.cls = "And" =>
                  \A i \in F :
                     /\ i < Len(nd.children) => n > i
                     /\ returned.result.t = "list" =>
                           returned.result.items[i] = lg[i].result
            /\ nd.cls = "Or" =>
                  \A i \in F : n = i /\ returned.result = lg[i].result
                                    /\ returned.end = lg[i].end
            /\ (nd.cls = "Repeat" /\ ~nd.has_most) =>
                  \A i \in F :
                     /\ n > i
                     /\ returned.result.t = "list" =>
                           returned.result.items[i] = lg[i].result

\* ZeroOrMore(OnSuccess('(', 0)) consumed two '(' and returned [0, 0].
C14_Witness ==
    /\ Called /\ returned.node = 31
    /\ returned.result = ListV(<<IntV(0), IntV(0)>>)
    /\ returned.end = returned.save + 2
    /\ position = returned.end

\* C15: OnSuccess(p, f) calls f exactly when p succeeded and returns NO_MATCH
\* otherwise; OnFailure(p, f) calls f exactly when p failed, the cursor then
\* being where p started, and returns p's result and cursor otherwise; when
\* f's value is not NO_MATCH the OnFailure node succeeds where it started.
C15_OnSuccessOnFailure ==
    (Called /\ Cls(returned.node) = "Action"
            /\ Grammar[returned.node].wrap \in {"OnSuccess", "OnFailure"}) =>
        LET nd == Grammar[returned.node]
            c == returned.log[1]
            failed == c.result.t = "None"
        IN  /\ Len(returned.log) = 1
            /\ c.node = nd.children[1] /\ c.start = returned.save
            /\ nd.wrap = "OnSuccess" =>
                  /\ returned.applied <=> ~failed
                  /\ failed => returned.result = None
                  /\ ~failed => /\ returned.result = ApplyAction(nd.action, c.result)
                                /\ (returned.result # None => returned.end = c.end)
            /\ nd.wrap = "OnFailure" =>
                  /\ returned.applied <=> failed
                  /\ ~failed => returned.result = c.result /\ returned.end = c.end
                  /\ failed => /\ c.end = returned.save
                               /\ returned.result = ApplyAction(nd.action, None)
                               /\ returned.end = returned.save

\* OnFailure(And('(', ')'), 0) recovered with 0 where it started, after the
\* child had consumed a '(' and failed.
C15_Witness ==
    /\ Called /\ returned.node = 32
    /\ returned.save < Len(token_list) /\ token_list[returned.save + 1] = "("
    /\ returned.log[1].result = None
    /\ returned.applied
    /\ returned.result = IntV(0)
    /\ position = returned.save

\* C16 (as claimed): a Repeat without a maximum has returned by the time its
\* child was invoked more often than tokens remained at its start (the
\* sentinel counted), plus one.
C16_RepeatBoundedClaim ==
    \A k \in 1..Len(stack) :
        (Cls(stack[k].node) = "Repeat" /\ ~Grammar[stack[k].node].has_most) =>
            Len(stack[k].log) <= Len(token_list) - stack[k].entry + 1

\* C17: while a parse runs the cursor moves only by one token forward, in a
\* token matcher, or back to the checkpoint the returning invocation took at
\* its entry, on NO_MATCH; a checkpoint is the cursor at entry, no checkpoint
\* and no cursor lies below the start of the outermost invocation.
C17_CursorDiscipline ==
    /\ [](status = "running" =>
             /\ position >= stack[1].entry
             /\ \A k \in 1..Len(stack) :
                   /\ stack[k].save = stack[k].entry
                   /\ stack[k].entry >= stack[1].entry
                   /\ stack[k].entry <= position)
    /\ [][status = "running" =>
             \/ position' = position
             \/ /\ position' = position + 1
                /\ IsTokenSatisfying(Top.node) /\ Top.pc = "parse"
             \/ /\ Top.pc = "exit" /\ Top.val = None
                /\ position' = Top.entry
                /\ position' < position
                /\ position' >= stack[1].entry]_vars

\* Inside Repeat(And('(', ')'), 2) started at 0, the second And consumed a
\* '(' at 2, failed and was rolled back to 2, its own checkpoint.
C17_Witness ==
    /\ status = "running"
    /\ stack[1].node = 15 /\ stack[1].entry = 0
    /\ returned.node = 6 /\ returned.save = 2
    /\ returned.log[1].end = 3
    /\ returned.result = None
    /\ position = 2

\* C19 (as claimed): in a parse started at cursor 0 no step takes the cursor
\* past len(token_list) and __next__ never raises IndexError.
C19_ConsumeInBoundsClaim ==
    [][(status = "running" /\ stack[1].entry = 0) =>
          (position' <= Len(token_list) /\ err' # "IndexError")]_vars

----------------------------------------------------------------------------
(* Properties of parse_string / descendants. *)

\* The nodes reachable from the nodes of S by following children at most n times.
RECURSIVE Reach(_, _, _)
Reach(S, px, n) ==
    IF n = 0 THEN S
    ELSE Reach(S \cup {c \in Nodes : \E m \in S : \E k \in 1..Len(children(m, px)) :
                                        children(m, px)[k] = c}, px, n - 1)
Reachable(r, px) == Reach({r}, px, Len(Grammar))
LiteralsOf(S, cls) == {Grammar[n].text : n \in {m \in S : Grammar[m].cls = cls}}

\* C7 (as claimed): descendants() on the root returns exactly the nodes
\* reachable from it through children, so the sets handed to the Lexer hold
\* the literal of every Keyword and every Symbol node of the tree.
C7_DescendantsClaim ==
    istatus = "collected" =>
        /\ seen = Reachable(iroot, proxy)
        /\ keywords = LiteralsOf(Reachable(iroot, proxy), "Keyword")
        /\ symbols = LiteralsOf(Reachable(iroot, proxy), "Symbol")

\* The graph the traversal starts in has a cycle through a Proxy.
Cyclic == \E n \in ProxyNodes : n \in Reachable(iroot, proxy) /\ proxy[n] # 0
                                 /\ n \in Reachable(proxy[n], proxy)

\* C8: descendants() adds no node to seen twice, does not exhaust the call
\* stack, and returns, on cyclic graphs too; a node equal in structure to the
\* root but another object (nodes 1 and 30) is not taken for it.
C8_DescendantsTerminates ==
    /\ [](\A n \in Nodes : visits[n] <= 1)
    /\ [](istatus # "raised")
    /\ [](iroot = 30 => visits[1] = 0)
    /\ (istatus = "descendants") ~> (istatus = "collected")

\* The traversal of a graph with a cycle through the Proxy has returned.
C8_Witness ==
    /\ istatus = "collected"
    /\ Cyclic
    /\ visits[iroot] = 1
    /\ iroot \in seen

----------------------------------------------------------------------------
(* Properties of the Lexer. *)

\* The symbols of syms that stand in str at offset j.
SymbolsAt(str, j, syms) ==
    {x \in syms : /\ j + Len(x) <= Len(str)
                  /\ \A k \in 1..Len(x) : str[j + k] = x[k]}
Longest(S) == CHOOSE x \in S : \A y \in S : Len(y) <= Len(x)

\* C10 (as claimed): where symbols of the set match at the first token's
\* position, the first token is the longest of them; with the symbols "=" and
\* "==" the text "==" gives the token "==" and the end-of-input sentinel.
C10_LongestSymbolClaim ==
    lstatus \in {"done", "raised"} =>
        LET j == ignore_end(string, 0)
            M == SymbolsAt(string, j, lexer_symbols)
        IN  /\ M # {} =>
                  /\ yielded # <<>>
                  /\ yielded[1].text = Longest(M)
                  /\ yielded[1].start = j
            /\ (string = EqEq /\ {Eq, EqEq} \subseteq lexer_symbols) =>
                  /\ lstatus = "done"
                  /\ [k \in 1..Len(yielded) |-> yielded[k].text] = <<EqEq, <<>>>>

\* \d and \w, of the characters the texts and the keywords are made of
IsDigit(c) == c = "1"
IsWord(c) == IsDigit(c) \/ c \in {"i", "f"}

\* x stands in str at offset j
StandsAt(str, j, x) ==
    j + Len(x) <= Len(str) /\ \A k \in 1..Len(x) : str[j + k] = x[k]

\* Whether the pattern of a class (lines 62-71) matches in str at offset j.
\* An empty keyword or symbol set gives the pattern '', which matches the
\* empty text everywhere.
MatchesAt(cls, str, j, kws, syms) ==
    CASE cls = "int" ->
            \E k \in (j + 1)..Len(str) :
                /\ \A m \in (j + 1)..k : IsDigit(str[m])
                /\ (k = Len(str) \/ str[k + 1] # ".")
      [] cls = "float" ->
            \E k \in (j + 1)..(Len(str) - 1) :
                (\A m \in (j + 1)..k : IsDigit(str[m])) /\ str[k + 1] = "."
      [] cls = "keyword" ->
            \/ kws = {}
            \/ \E x \in kws : /\ StandsAt(str, j, x)
                               /\ (j + Len(x) = Len(str) \/ ~IsWord(str[j + Len(x) + 1]))
      [] cls = "name" ->
            /\ j < Len(str) /\ IsWord(str[j + 1]) /\ ~IsDigit(str[j + 1])
            /\ ~\E x \in kws : /\ StandsAt(str, j, x)
                                /\ (j + Len(x) = Len(str) \/ ~IsWord(str[j + Len(x) + 1]))
      [] cls = "str" ->
            /\ j < Len(str) /\ str[j + 1] \in {"\"", "'"}
            /\ \E k \in (j + 2)..Len(str) : str[k] = str[j + 1]
      [] OTHER ->
            syms = {} \/ SymbolsAt(str, j, syms) # {}

\* The classes in the order of the token_types dict (lines 62-71).
ClassOrder == <<"int", "float", "keyword", "name", "str", "symbol">>

\* The first class in that order whose pattern matches at offset j.
ClassAt(str, j, kws, syms) ==
    LET M == {k \in 1..Len(ClassOrder) : MatchesAt(ClassOrder[k], str, j, kws, syms)}
    IN  IF M = {} THEN "none"
        ELSE ClassOrder[CHOOSE k \in M : \A m \in M : k <= m]

\* err_regex.match(string, j).end(), lines 57 and 92: the end of the run of
\* non-whitespace characters from j
RECURSIVE err_end(_, _)
err_end(str, j) ==
    IF j < Len(str) /\ ~IsSpace(str[j + 1]) THEN err_end(str, j + 1) ELSE j

Finished == lstatus \in {"done", "raised"}

\* C11: every token emitted, the sentinel apart, has the text
\* string[start:end] and the first class, in the order int, float, keyword,
\* name, str, symbol, whose pattern matches at its start.  _lex raises
\* before it yields anything, so no run has a token to test this on.
C11_TokenClass ==
    \A k \in 1..Len(yielded) :
        yielded[k].type_ # "eof" =>
           /\ yielded[k].text = slice(string, yielded[k].start, yielded[k].end)
           /\ yielded[k].type_ =
                 ClassAt(string, yielded[k].start, lexer_keywords, lexer_symbols)

\* C12 (as claimed): where no class matches at the first position after the
\* ignored text, _lex ends with a ParseException whose token is the run of
\* non-whitespace characters from there, and yields no token stream; for the
\* text "@@@" the token starts at offset 0, on the first line (line_number
\* counts the newlines before it), in column 1.
C12_LexicalErrorClaim ==
    Finished =>
        LET j == ignore_end(string, 0)
        IN  (j < Len(string)
               /\ ClassAt(string, j, lexer_keywords, lexer_symbols) = "none") =>
                  /\ lstatus = "raised" /\ lerr = "ParseException"
                  /\ yielded = <<>>
                  /\ new_token.start = j
                  /\ new_token.end = err_end(string, j)
                  /\ new_token.token = slice(string, j, err_end(string, j))
                  /\ string = <<"@", "@", "@">> =>
                        /\ new_token.start = 0
                        /\ new_token.line_number + 1 = 1
                        /\ new_token.column_number = 1

\* C13 (as claimed): a text that tokenizes without a lexical error, the empty
\* and the ignorable-only text included, gives a token list with exactly one
\* end-of-input token: the last one, with the empty text and start = end =
\* len(string).
C13_SentinelClaim ==
    (Finished /\ lerr # "ParseException") =>
        /\ lstatus = "done"
        /\ yielded # <<>>
        /\ Cardinality({k \in 1..Len(yielded) : yielded[k].type_ = "eof"}) = 1
        /\ LET e == yielded[Len(yielded)]
           IN  /\ e.type_ = "eof"
               /\ e.text = <<>>
               /\ e.start = Len(string) /\ e.end = Len(string)

\* C20 (as claimed): for every keyword set and symbol set, the empty ones
\* included, _lex ends with a token stream or a lexical error, and every
\* token before the sentinel has a non-empty text and starts no earlier than
\* the token before it ended.
C20_LexerProgressClaim ==
    /\ Finished => (lstatus = "done" \/ lerr = "ParseException")
    /\ \A k \in 1..Len(yielded) :
          yielded[k].type_ # "eof" =>
             /\ yielded[k].text # <<>>
             /\ yielded[k].end > yielded[k].start
             /\ k > 1 => yielded[k].start >= yielded[k - 1].end

----------------------------------------------------------------------------
(* Properties of Token. *)

\* The offset at which the line holding offset j starts.
LineStart(str, j) ==
    CHOOSE a \in 0..j :
        /\ \A k \in (a + 1)..j : str[k] # "\n"
        /\ (a = 0 \/ str[a] = "\n")

\* The offset of the first newline at or after offset j, or the end of str.
LineEnd(str, j) ==
    CHOOSE b \in j..Len(str) :
        /\ \A k \in (j + 1)..b : str[k] # "\n"
        /\ (b = Len(str) \/ str[b + 1] = "\n")

\* C18 (as claimed): for 0 <= start <= end <= len(string) the token's line
\* number is one more than the newlines before start (line_number holds that
\* count), its column is start minus the offset of the line start plus 1, and
\* its line is the text from the line start to the next newline at or after
\* end, or to the end of the string, its last character included.
C18_TokenPositionClaim ==
    new_token # NoToken =>
        LET str == new_token.string
            a == LineStart(str, new_token.start)
            b == LineEnd(str, new_token.end)
        IN  /\ new_token.line_number + 1 =
                  1 + Cardinality({k \in 1..new_token.start : str[k] = "\n"})
            /\ new_token.column_number = new_token.start - a + 1
            /\ new_token.line = SubSeq(str, a + 1, b)

====
